---- MODULE Spec2Model ----
(***************************************************************************)
(* node-res: a convenience layer over the platform HTTP response object.   *)
(* The model covers Response.header/safeHeader/removeHeader/status/etag,   *)
(* the body classifier returnContentAndType, Response.prepare,             *)
(* Response.send, the generated descriptive methods and the stream piper   *)
(* Response.stream with its three event handlers.                          *)
(*                                                                         *)
(* JavaScript values are tagged records ([k |-> "str", s |-> chars], ...); *)
(* strings are sequences of one-character strings so that String(),       *)
(* JSON.stringify, the /^\s*</ test and Buffer.byteLength are computed.    *)
(***************************************************************************)
EXTENDS Naturals, Sequences, FiniteSets, TLC

(***************************************************************************)
(* Bounds of the model.                                                    *)
(***************************************************************************)
NumReq == 2
MaxData == 1
MaxError == 2
MaxEnd == 2
\* the calls of Response.prepare one request handler makes
MaxPrepare == 2
\* the header calls one request handler makes
MaxHeaderCalls == 3
\* the events the bodies of concurrent stream invocations emit in all
MaxEvents == 3
\* the length of the strings handed to the body classifier
MaxStrLen == 3

Req == 1..NumReq

(***************************************************************************)
(* JavaScript values.                                                      *)
(***************************************************************************)
Null == [k |-> "null"]
Undefined == [k |-> "undef"]
Str(s) == [k |-> "str", s |-> s]
Num(n) == [k |-> "num", n |-> n]
Bool(t) == [k |-> "bool", t |-> t]
Buf(b) == [k |-> "buf", b |-> b]
Obj(o) == [k |-> "obj", o |-> o]
\* An array of strings and numbers.
List(l) == [k |-> "list", l |-> l]
StreamBody == [k |-> "stream"]
\* A function: a value whose typeof is neither 'object' nor a primitive's.
Fn == [k |-> "fn"]

\* JavaScript truthiness of a value (the `x &&` and `!x` tests of the source).
truthy(v) ==
  CASE v.k = "null" -> FALSE
    [] v.k = "undef" -> FALSE
    [] v.k = "str" -> Len(v.s) > 0
    [] v.k = "num" -> v.n # 0
    [] v.k = "bool" -> v.t
    [] OTHER -> TRUE

\* typeof (body.pipe) === 'function'
hasPipe(body) == body.k = "stream"

(***************************************************************************)
(* Conversions.                                                            *)
(***************************************************************************)
Digit(d) == <<"0", "1", "2", "3", "4", "5", "6", "7", "8", "9">>[d + 1]

RECURSIVE Decimal(_)
Decimal(n) == IF n < 10 THEN <<Digit(n)>> ELSE Decimal(n \div 10) \o <<Digit(n % 10)>>

\* String(v) and v.toString() for a string, a number or a boolean.
String(v) ==
  IF v.k = "str" THEN v.s
  ELSE IF v.k = "num" THEN Decimal(v.n)
  ELSE IF v.t THEN <<"t", "r", "u", "e">> ELSE <<"f", "a", "l", "s", "e">>

\* JSON.stringify of a plain object, given as a sequence of <<key, number>> pairs.
RECURSIVE JSONmembers(_)
JSONmembers(o) ==
  IF o = <<>> THEN <<>>
  ELSE <<"\"">> \o o[1][1] \o <<"\"", ":">> \o Decimal(o[1][2])
       \o (IF Len(o) > 1 THEN <<",">> ELSE <<>>) \o JSONmembers(Tail(o))

\* JSON.stringify of the elements of an array of strings and numbers.
RECURSIVE JSONelements(_)
JSONelements(l) ==
  IF l = <<>> THEN <<>>
  ELSE (IF l[1].k = "str" THEN <<"\"">> \o l[1].s \o <<"\"">> ELSE Decimal(l[1].n))
       \o (IF Len(l) > 1 THEN <<",">> ELSE <<>>) \o JSONelements(Tail(l))

\* JSON.stringify of null, of an array and of a plain object.
JSONstringify(v) ==
  CASE v.k = "null" -> <<"n", "u", "l", "l">>
    [] v.k = "list" -> <<"[">> \o JSONelements(v.l) \o <<"]">>
    [] OTHER -> <<"{">> \o JSONmembers(v.o) \o <<"}">>

\* typeof (v) === 'object': null, arrays, buffers, streams and plain objects.
typeofObject(v) == v.k \in {"null", "list", "buf", "stream", "obj"}

IsSpace(c) == c \in {" ", "\t", "\n"}

\* Mutant: the test is /^</, leading whitespace is not skipped.
htmlTestNoWhitespace(s) == s # <<>> /\ s[1] = "<"

\* /^\s*</.test(body)
RECURSIVE htmlTest(_)
htmlTest(s) ==
  IF s = <<>> THEN FALSE
  ELSE IF s[1] = "<" THEN TRUE
  ELSE IF IsSpace(s[1]) THEN htmlTest(Tail(s))
  ELSE FALSE

\* UTF-8 width of one character.
CharBytes(c) == IF c = "é" THEN 2 ELSE 1

RECURSIVE utf8Length(_)
utf8Length(s) == IF s = <<>> THEN 0 ELSE CharBytes(s[1]) + utf8Length(Tail(s))

\* Buffer.byteLength(chunk): UTF-8 bytes of a string, length of a buffer.
byteLength(chunk) == IF chunk.k = "buf" THEN Len(chunk.b) ELSE utf8Length(chunk.s)

TextHtml == <<"t", "e", "x", "t", "/", "h", "t", "m", "l">>
TextPlain == <<"t", "e", "x", "t", "/", "p", "l", "a", "i", "n">>
OctetStream == <<"a", "p", "p", "l", "i", "c", "a", "t", "i", "o", "n", "/",
                 "o", "c", "t", "e", "t", "-", "s", "t", "r", "e", "a", "m">>
ApplicationJson == <<"a", "p", "p", "l", "i", "c", "a", "t", "i", "o", "n", "/",
                     "j", "s", "o", "n">>
CharsetUtf8 == <<";", " ", "c", "h", "a", "r", "s", "e", "t", "=", "u", "t", "f", "-", "8">>

\* The body classifier: (content, media type); type Undefined when none.
returnContentAndType(body) ==
  IF body.k = "str"
  THEN [body |-> body, type |-> IF htmlTest(body.s) THEN Str(TextHtml) ELSE Str(TextPlain)]
  ELSE IF body.k = "buf"
  THEN [body |-> body, type |-> Str(OctetStream)]
  ELSE IF body.k \in {"num", "bool"}
  THEN [body |-> Str(String(body)), type |-> Str(TextPlain)]
  ELSE IF typeofObject(body)
  THEN [body |-> Str(JSONstringify(body)), type |-> Str(ApplicationJson)]
  ELSE [body |-> body, type |-> Undefined]

(***************************************************************************)
(* The status-code table (methods) as far as the source and its tests name *)
(* it.                                                                     *)
(***************************************************************************)
methods == [noContent |-> 204, notModified |-> 304, tooManyRequests |-> 429]

MethodNames == {"noContent", "notModified", "tooManyRequests"}

(***************************************************************************)
(* The response object: statusCode, the header map (lower-cased names),    *)
(* the payloads handed to res.write/res.end, and whether res.end was       *)
(* called.                                                                 *)
(***************************************************************************)
HeaderKeys ==
  {"content-type", "content-length", "transfer-encoding", "etag", "location", "foo"}

NewResponse ==
  [statusCode |-> 200,
   headers |-> [h \in HeaderKeys |-> Undefined],
   written |-> <<>>,
   ended |-> FALSE]

getHeader(res, key) == res.headers[key]

\* value.map(String)
mapString(l) == [i \in 1..Len(l) |-> Str(String(l[i]))]

\* Response.header: res.setHeader(key, values)
header(res, key, value) ==
  LET values == IF value.k = "list" THEN List(mapString(value.l)) ELSE value
  IN [res EXCEPT !.headers[key] = values]

\* previousValue.concat(value) and [previousValue.toString()].concat(value):
\* concat appends the elements of an array and appends any other value itself.
concat(l, value) == IF value.k = "list" THEN l \o value.l ELSE Append(l, value)

\* Response.append
append(res, key, value) ==
  LET previousValue == getHeader(res, key)
      v == IF value.k = "num" THEN Str(String(value)) ELSE value
      headers == IF truthy(previousValue)
                 THEN IF previousValue.k = "list"
                      THEN List(concat(previousValue.l, v))
                      ELSE List(concat(<<Str(String(previousValue))>>, v))
                 ELSE v
  IN header(res, key, headers)

safeHeader(res, key, value) ==
  IF ~truthy(getHeader(res, key)) THEN header(res, key, value) ELSE res

removeHeader(res, key) == [res EXCEPT !.headers[key] = Undefined]

status(res, code) == [res EXCEPT !.statusCode = code]

\* Response.location
location(res, url) == header(res, "location", url)

\* res.write(body)
write(res, body) == [res EXCEPT !.written = Append(@, body)]

\* res.end(payload); payload Undefined when absent
end(res, payload) ==
  [res EXCEPT !.written = IF payload.k = "undef" THEN @ ELSE Append(@, payload),
              !.ended = TRUE]

\* The etag package: a tag computed from the content.
etagOf(body) == [k |-> "etag", of |-> body]

etag(res, body) == header(res, "etag", etagOf(body))

\* Mutant: Transfer-Encoding is left in place.
stripContentHeadersKeepsEncoding(res) ==
  removeHeader(removeHeader(res, "content-type"), "content-length")

\* The three removeHeader calls of Response.prepare.
stripContentHeaders(res) ==
  removeHeader(removeHeader(removeHeader(res, "content-type"), "content-length"),
               "transfer-encoding")

\* Mutant: for status 204 and 304 the headers are removed and, the early return
\* missing, set again as the header snapshot taken on entry says.
prepareFallsThrough(res, body) ==
  IF body.k \in {"null", "undef"}
  THEN [res |-> stripContentHeaders(status(res, methods.noContent)), chunk |-> Null]
  ELSE
    LET ct == returnContentAndType(body)
        chunk == ct.body
        headers == res.headers
        r0 == IF res.statusCode = methods.noContent \/ res.statusCode = methods.notModified
              THEN stripContentHeaders(res)
              ELSE res
        r1 == IF truthy(ct.type) /\ ~truthy(headers["content-type"])
              THEN header(r0, "content-type", Str(ct.type.s \o CharsetUtf8))
              ELSE r0
        r2 == IF truthy(chunk) /\ ~truthy(headers["content-length"])
              THEN header(r1, "content-length", Num(byteLength(chunk)))
              ELSE r1
    IN [res |-> r2, chunk |-> chunk]

\* Mutant: the headers are removed for status 204 only, not for 304.
prepareNoContentOnly(res, body) ==
  IF body.k \in {"null", "undef"}
  THEN [res |-> stripContentHeaders(status(res, methods.noContent)), chunk |-> Null]
  ELSE
    LET ct == returnContentAndType(body)
        chunk == ct.body
        headers == res.headers
        r1 == IF truthy(ct.type) /\ ~truthy(headers["content-type"])
              THEN header(res, "content-type", Str(ct.type.s \o CharsetUtf8))
              ELSE res
        r2 == IF truthy(chunk) /\ ~truthy(headers["content-length"])
              THEN header(r1, "content-length", Num(byteLength(chunk)))
              ELSE r1
    IN IF res.statusCode = methods.noContent
       THEN [res |-> stripContentHeaders(res), chunk |-> chunk]
       ELSE [res |-> r2, chunk |-> chunk]

\* Response.prepare: the response after the call and the returned chunk.
prepare(res, body) ==
  IF body.k \in {"null", "undef"}
  THEN [res |-> stripContentHeaders(status(res, methods.noContent)), chunk |-> Null]
  ELSE
    LET ct == returnContentAndType(body)
        chunk == ct.body
        headers == res.headers
        r1 == IF truthy(ct.type) /\ ~truthy(headers["content-type"])
              THEN header(res, "content-type", Str(ct.type.s \o CharsetUtf8))
              ELSE res
        r2 == IF truthy(chunk) /\ ~truthy(headers["content-length"])
              THEN header(r1, "content-length", Num(byteLength(chunk)))
              ELSE r1
    IN IF res.statusCode = methods.noContent \/ res.statusCode = methods.notModified
       THEN [res |-> stripContentHeaders(res), chunk |-> chunk]
       ELSE [res |-> r2, chunk |-> chunk]

\* Response.send for a body that is not a stream.
sendPlain(req, res, body, generateEtag) ==
  LET p == prepare(res, body)
  IN IF p.chunk.k \in {"null", "undef"} \/ req.method = "HEAD"
     THEN end(p.res, Undefined)
     ELSE end(IF generateEtag THEN etag(p.res, p.chunk) ELSE p.res, p.chunk)

(***************************************************************************)
(* Errors: the code and the message of an Error object.                    *)
(***************************************************************************)
ENOENT == <<"E", "N", "O", "E", "N", "T">>
EIO == <<"E", "I", "O">>

Err(code, message) == [k |-> "err", code |-> code, message |-> message]

\* The error of a stream opened on a file that does not exist.
NoSuchFile ==
  Err(ENOENT,
      ENOENT \o <<":", " ", "n", "o", " ", "s", "u", "c", "h", " ", "f", "i", "l", "e">>)
ReadFailed == Err(EIO, <<"<", "i", "o", ">">>)

\* new Error('Body is not a valid stream'): an Error without a code.
NotAValidStream == Err(<<>>, <<"B", "o", "d", "y", " ", "i", "s", " ", "n", "o", "t", " ", "a", " ", "v", "a", "l", "i", "d", " ", "s", "t", "r", "e", "a", "m">>)

StreamErrors == {NoSuchFile, ReadFailed}

(***************************************************************************)
(* One Response.stream invocation: the promise, the closure variable       *)
(* `finished`, the handlers registered on the body and on the response,    *)
(* and the calls of destroy(body), each with the handler that made it.     *)
(* nData/nError/nEnd count the events the body has emitted; lastError is   *)
(* the error of its latest 'error' event.                                  *)
(***************************************************************************)
NoStream ==
  [promise |-> "none", reason |-> Null, finished |-> FALSE,
   log |-> <<>>, onError |-> FALSE, onEnd |-> FALSE,
   listening |-> FALSE, deferred |-> FALSE, piped |-> FALSE,
   destroys |-> <<>>,
   nData |-> 0, nError |-> 0, nEnd |-> 0, lastError |-> Null,
   viaSend |-> FALSE, generateEtag |-> FALSE, caught |-> FALSE]

\* A promise settles once: resolve and reject of a settled promise do nothing.
resolve(s) == IF s.promise = "pending" THEN [s EXCEPT !.promise = "resolved"] ELSE s

reject(s, error) ==
  IF s.promise = "pending" THEN [s EXCEPT !.promise = "rejected", !.reason = error] ELSE s

\* destroy(body), called by handler `by`
destroy(s, by) == [s EXCEPT !.destroys = Append(@, by)]

\* Mutant: `finished` guards the release only, the promise is always rejected.
errorHandlerAlwaysRejects(s, error) ==
  IF s.finished THEN reject(s, error)
  ELSE reject(destroy([s EXCEPT !.finished = TRUE], "error"), error)

\* Mutant: the error handler without its `finished` guard.
errorHandlerUnguarded(s, error) ==
  reject(destroy([s EXCEPT !.finished = TRUE], "error"), error)

\* body.on('error', (error) => { ... })
errorHandler(s, error) ==
  IF s.finished THEN s
  ELSE reject(destroy([s EXCEPT !.finished = TRUE], "error"), error)

\* body.on('end', resolve)
endHandler(s) == resolve(s)

\* Mutant: the completion handler marks `finished` and leaves the stream open.
finishedHandlerNoDestroy(s) == [s EXCEPT !.finished = TRUE]

\* Mutant: the completion handler also resolves the promise.
finishedHandlerResolves(s) == resolve(destroy([s EXCEPT !.finished = TRUE], "finished"))

\* onFinished(res, () => { ... })
finishedHandler(s) == destroy([s EXCEPT !.finished = TRUE], "finished")

\* Mutant: body.pipe(res) is called first and the 'end' handler is left out.
registerPipesFirst(s, isFinished) ==
  [s EXCEPT !.onError = TRUE,
            !.listening = ~isFinished,
            !.deferred = isFinished,
            !.piped = TRUE,
            !.log = @ \o <<"pipe", "error", "finished">>]

\* The registrations of Response.stream, in the order of the source. on-finished
\* attaches a listener to a live response and defers the callback (setImmediate)
\* of a response that has completed already.
register(s, isFinished) ==
  [s EXCEPT !.onError = TRUE,
            !.onEnd = TRUE,
            !.listening = ~isFinished,
            !.deferred = isFinished,
            !.piped = TRUE,
            !.log = @ \o <<"error", "end", "finished", "pipe">>]

\* Mutant: the handlers are registered before the body is validated.
streamRegistersFirst(s, body, isFinished) ==
  LET p == register([s EXCEPT !.promise = "pending"], isFinished)
  IN IF ~hasPipe(body) THEN reject(p, NotAValidStream) ELSE p

\* Response.stream(res, body): the executor of the returned promise.
stream(s, body, isFinished) ==
  LET p == [s EXCEPT !.promise = "pending"]
  IN IF ~hasPipe(body) THEN reject(p, NotAValidStream) ELSE register(p, isFinished)

\* Mutant: every stream error is answered with 500.
catchStatusAlways500(error) == 500

\* The status of the .catch handler of Response.send.
catchStatus(error) == IF error.code = ENOENT THEN 404 ELSE 500

\* Mutant: the .catch handler sends the error's code, as the handler of the
\* test 'raise error when stream raises one' does.
sendCatchCode(req, res, error, generateEtag) ==
  sendPlain(req, status(res, catchStatus(error)), Str(error.code), generateEtag)

\* The .catch handler of Response.send.
sendCatch(req, res, error, generateEtag) ==
  sendPlain(req, status(res, catchStatus(error)), Str(error.message), generateEtag)

(***************************************************************************)
(* The state: per request, the request, the response, whether the response *)
(* has completed (finished, closed or errored: what on-finished reports),  *)
(* the stream invocation, and the position of the request handler with     *)
(* what it called (pre: the response when Response.send / Response.stream  *)
(* was entered).                                                           *)
(***************************************************************************)
VARIABLES req, res, completed, strm, call

vars == <<req, res, completed, strm, call>>

Methods == {"GET", "HEAD"}

CallerStatuses == {204, 304, 404}

Hi == <<"h", "i">>
Chunked == <<"c", "h", "u", "n", "k", "e", "d">>

\* The headers a request handler sets before sending.
CallerHeaders ==
  {<<"content-type", Str(ApplicationJson)>>,
   <<"content-length", Num(7)>>,
   <<"content-length", Num(0)>>,
   <<"transfer-encoding", Str(Chunked)>>}

\* The bodies a request handler sends.
PlainBodies ==
  {Null, Undefined,
   Str(<<>>), Str(Hi), Str(<<" ", "<", "p", ">">>), Str(<<"é">>),
   Num(0), Num(42), Bool(TRUE), Bool(FALSE),
   Buf(<<>>), Buf(<<104, 105>>),
   Obj(<<>>), Obj(<<<<<<"a">>, 1>>>>)}

Bodies == PlainBodies \cup {StreamBody}

\* The chunks a stream delivers.
Chunks == {Buf(<<104, 105>>)}

Bar == <<"b", "a", "r">>
Baz == <<"b", "a", "z">>

\* The header the request handler gets, sets and appends to, and the values it
\* passes.
HeaderCallKeys == {"foo"}

HeaderCallValues ==
  {Str(<<>>), Str(Bar), Num(0), Num(5), List(<<Str(Baz)>>), List(<<Str(Bar), Num(1)>>)}

\* The latest header call of a request handler: the method, its arguments and
\* the stored value it found (pre); for a run of Response.append calls the
\* stored value the run started from and the values appended so far; n: the
\* header calls so far.
NoHeaderCall ==
  [op |-> "none", key |-> "", value |-> Undefined, pre |-> Undefined,
   start |-> Undefined, appended |-> <<>>, n |-> 0]

\* The values handed to the body classifier: every string over Alphabet up to
\* MaxStrLen characters, and values of every other kind.
Alphabet == {" ", "\n", "<", "h"}

Strings == UNION {[1..m -> Alphabet] : m \in 0..MaxStrLen}

ClassifierInputs ==
  {Str(s) : s \in Strings}
    \cup {Num(0), Num(42), Num(105), Bool(TRUE), Bool(FALSE),
          Buf(<<>>), Buf(<<104, 105>>),
          Obj(<<>>), Obj(<<<<<<"a">>, 1>>>>), Obj(<<<<<<"a">>, 1>>, <<<<"b">>, 20>>>>),
          List(<<>>), List(<<Str(Bar), Num(1)>>),
          Null, Undefined, Fn}

\* The arguments of Response.redirect: the url, and the status or none.
Localhost ==
  <<"h", "t", "t", "p", ":", "/", "/", "l", "o", "c", "a", "l", "h", "o", "s", "t">>

Urls == {Str(<<"/">>), Str(Localhost)}

RedirectStatuses == {Undefined, Num(301)}

\* chunk: what Response.prepare returned; nPrepare: its calls so far; ct: what
\* returnContentAndType returned; url, code: the arguments of Response.redirect.
NoCall == [pc |-> "idle", op |-> "none", statusSet |-> FALSE, body |-> Undefined,
           pre |-> NewResponse, chunk |-> Undefined, nPrepare |-> 0,
           hdr |-> NoHeaderCall, ct |-> [body |-> Undefined, type |-> Undefined],
           url |-> Undefined, code |-> Undefined]

Init ==
  /\ req = [r \in Req |-> [method |-> "GET"]]
  /\ res = [r \in Req |-> NewResponse]
  /\ completed = [r \in Req |-> FALSE]
  /\ strm = [r \in Req |-> NoStream]
  /\ call = [r \in Req |-> NoCall]

(***************************************************************************)
(* The request handler: it may set the status and headers, then calls      *)
(* Response.send, a descriptive method or Response.stream.                 *)
(***************************************************************************)
\* The server hands a request and its fresh response to the request handler.
Arrive(r, method) ==
  /\ call[r].pc = "idle"
  /\ req' = [req EXCEPT ![r].method = method]
  /\ call' = [call EXCEPT ![r].pc = "handler"]
  /\ UNCHANGED <<res, completed, strm>>

\* Response.status(res, code), called by the request handler
CallStatus(r, code) ==
  /\ call[r].pc = "handler"
  /\ ~call[r].statusSet
  /\ res' = [res EXCEPT ![r] = status(@, code)]
  /\ call' = [call EXCEPT ![r].statusSet = TRUE]
  /\ UNCHANGED <<req, completed, strm>>

\* Response.header(res, key, value), called by the request handler
CallHeader(r, key, value) ==
  /\ call[r].pc = "handler"
  /\ ~truthy(getHeader(res[r], key))
  /\ res' = [res EXCEPT ![r] = header(@, key, value)]
  /\ UNCHANGED <<req, completed, strm, call>>

\* A header call of the request handler, with the response it leaves.
HeaderCall(r, op, key, value, after) ==
  /\ call[r].hdr.n < MaxHeaderCalls
  /\ res' = [res EXCEPT ![r] = after]
  /\ LET h == call[r].hdr
         continues == op = "append" /\ h.op = "append" /\ h.key = key
     IN call' = [call EXCEPT ![r].hdr =
                   [op |-> op, key |-> key, value |-> value,
                    pre |-> getHeader(res[r], key),
                    start |-> IF continues THEN h.start
                              ELSE IF op = "append" THEN getHeader(res[r], key)
                              ELSE Undefined,
                    appended |-> IF continues THEN Append(h.appended, value)
                                 ELSE IF op = "append" THEN <<value>>
                                 ELSE <<>>,
                    n |-> h.n + 1]]
  /\ UNCHANGED <<req, completed, strm>>

\* Response.header(res, key, value), replacing a header
CallSetHeader(r, key, value) ==
  /\ call[r].pc = "handler"
  /\ HeaderCall(r, "header", key, value, header(res[r], key, value))

\* Response.safeHeader(res, key, value)
CallSafeHeader(r, key, value) ==
  /\ call[r].pc = "handler"
  /\ HeaderCall(r, "safeHeader", key, value, safeHeader(res[r], key, value))

\* Response.append(res, key, value)
CallAppend(r, key, value) ==
  /\ call[r].pc = "handler"
  /\ HeaderCall(r, "append", key, value, append(res[r], key, value))

\* Response.removeHeader(res, key)
CallRemoveHeader(r, key) ==
  /\ call[r].pc = "handler"
  /\ HeaderCall(r, "removeHeader", key, Undefined, removeHeader(res[r], key))

\* The effect of Response.send(req, res, body, generateEtag) on response `now`.
Sending(r, now, body, generateEtag) ==
  /\ IF truthy(body) /\ hasPipe(body)
     THEN /\ strm' = [strm EXCEPT ![r] =
                        [stream(@, body, completed[r])
                           EXCEPT !.viaSend = TRUE, !.generateEtag = generateEtag]]
          /\ res' = [res EXCEPT ![r] = now]
     ELSE /\ res' = [res EXCEPT ![r] = sendPlain(req[r], now, body, generateEtag)]
          /\ strm' = strm
  /\ UNCHANGED <<req, completed>>

\* Response.send(req, res, body, generateEtag) on response `now`, the handler
\* having called `op`.
Send(r, now, op, body, generateEtag) ==
  /\ call' = [call EXCEPT ![r].pc = "called", ![r].op = op, ![r].body = body,
                          ![r].pre = now,
                          ![r].statusSet = @ \/ op # "send"]
  /\ Sending(r, now, body, generateEtag)

CallSend(r, body, generateEtag) ==
  /\ call[r].pc = "handler"
  /\ Send(r, res[r], "send", body, generateEtag)

\* Response[method](req, res, body): a generated descriptive method
CallDescriptive(r, method, body) ==
  /\ call[r].pc = "handler"
  /\ ~call[r].statusSet
  /\ Send(r, status(res[r], methods[method]), method, body, TRUE)

\* returnContentAndType(body), called on its own
Classify(r, body) ==
  /\ call[r].pc = "handler"
  /\ call' = [call EXCEPT ![r].pc = "called", ![r].op = "classify", ![r].body = body,
                          ![r].ct = returnContentAndType(body)]
  /\ UNCHANGED <<req, res, completed, strm>>

\* Response.prepare(res, body), called by the request handler to get the final
\* payload and end the response at a later stage.
CallPrepare(r, body) ==
  /\ call[r].pc = "handler"
  /\ LET p == prepare(res[r], body)
     IN /\ res' = [res EXCEPT ![r] = p.res]
        /\ call' = [call EXCEPT ![r].pc = "prepared", ![r].op = "prepare",
                                ![r].body = body, ![r].pre = res[r],
                                ![r].chunk = p.chunk, ![r].nPrepare = 1]
  /\ UNCHANGED <<req, completed, strm>>

\* The request handler calls Response.prepare again with the same body.
CallPrepareAgain(r) ==
  /\ call[r].pc = "prepared"
  /\ call[r].nPrepare < MaxPrepare
  /\ LET p == prepare(res[r], call[r].body)
     IN /\ res' = [res EXCEPT ![r] = p.res]
        /\ call' = [call EXCEPT ![r].pre = res[r], ![r].chunk = p.chunk,
                                ![r].nPrepare = @ + 1]
  /\ UNCHANGED <<req, completed, strm>>

\* Response.end(res, chunk) with the payload Response.prepare returned.
CallEnd(r) ==
  /\ call[r].pc = "prepared"
  /\ res' = [res EXCEPT ![r] =
               end(@, IF call[r].chunk.k = "null" THEN Undefined ELSE call[r].chunk)]
  /\ call' = [call EXCEPT ![r].pc = "called"]
  /\ UNCHANGED <<req, completed, strm>>

\* status: number = 302, the default of Response.redirect
redirectStatus(code) == IF code.k = "undef" THEN 302 ELSE code.n

\* Response.redirect(req, res, url, status)
CallRedirect(r, url, code) ==
  LET body == Str(<<>>)
      now == location(status(res[r], redirectStatus(code)), url)
  IN /\ call[r].pc = "handler"
     /\ call' = [call EXCEPT ![r].pc = "called", ![r].op = "redirect",
                             ![r].body = body, ![r].pre = now, ![r].statusSet = TRUE,
                             ![r].url = url, ![r].code = code]
     /\ Sending(r, now, body, TRUE)

\* Response.stream(res, body), called by the request handler
CallStream(r, body) ==
  /\ call[r].pc = "handler"
  /\ call' = [call EXCEPT ![r].pc = "called", ![r].op = "stream", ![r].body = body,
                          ![r].pre = res[r]]
  /\ strm' = [strm EXCEPT ![r] = stream(@, body, completed[r])]
  /\ UNCHANGED <<req, res, completed>>

(***************************************************************************)
(* Events.                                                                 *)
(***************************************************************************)
\* The response completes: it has finished after res.end, or the client has
\* disconnected, or the socket has failed. on-finished calls its listener once.
Completion(r) ==
  /\ call[r].pc # "idle"
  /\ ~completed[r]
  /\ completed' = [completed EXCEPT ![r] = TRUE]
  /\ strm' = [strm EXCEPT ![r] =
                IF @.listening THEN finishedHandler([@ EXCEPT !.listening = FALSE]) ELSE @]
  /\ UNCHANGED <<req, res, call>>

\* The callback on-finished deferred because the response had completed already.
Deferred(r) ==
  /\ strm[r].deferred
  /\ strm' = [strm EXCEPT ![r] = finishedHandler([@ EXCEPT !.deferred = FALSE])]
  /\ UNCHANGED <<req, res, completed, call>>

\* The body emits 'data': the pipe of body.pipe(res) writes the chunk.
StreamData(r, chunk) ==
  /\ strm[r].piped
  /\ strm[r].nData < MaxData
  /\ strm[r].nEnd = 0
  /\ strm[r].destroys = <<>>
  /\ ~res[r].ended
  /\ ~completed[r]
  /\ res' = [res EXCEPT ![r] = write(@, chunk)]
  /\ strm' = [strm EXCEPT ![r].nData = @ + 1]
  /\ UNCHANGED <<req, completed, call>>

\* Mutant: `finished` is one variable shared by every invocation.
StreamErrorSharedFinished(r, error) ==
  /\ strm[r].onError
  /\ strm[r].nError < MaxError
  /\ strm' = [q \in Req |->
                IF q = r
                THEN errorHandler([strm[q] EXCEPT !.nError = @ + 1, !.lastError = error], error)
                ELSE [strm[q] EXCEPT !.finished = TRUE]]
  /\ UNCHANGED <<req, res, completed, call>>

\* The body emits 'error'.
StreamError(r, error) ==
  /\ strm[r].onError
  /\ strm[r].nError < MaxError
  /\ strm' = [strm EXCEPT ![r] =
                errorHandler([@ EXCEPT !.nError = @ + 1, !.lastError = error], error)]
  /\ UNCHANGED <<req, res, completed, call>>

\* The body emits 'end': resolve runs, then the pipe ends the response.
StreamEnd(r) ==
  /\ strm[r].onEnd
  /\ strm[r].nEnd < MaxEnd
  /\ strm' = [strm EXCEPT ![r] = endHandler([@ EXCEPT !.nEnd = @ + 1])]
  /\ res' = [res EXCEPT ![r] =
               IF strm[r].nEnd = 0 /\ ~@.ended /\ ~completed[r] THEN end(@, Undefined) ELSE @]
  /\ UNCHANGED <<req, completed, call>>

\* The .catch handler of Response.send runs on the rejected promise.
SendCatch(r) ==
  /\ strm[r].viaSend
  /\ strm[r].promise = "rejected"
  /\ ~strm[r].caught
  /\ res' = [res EXCEPT ![r] = sendCatch(req[r], @, strm[r].reason, strm[r].generateEtag)]
  /\ strm' = [strm EXCEPT ![r].caught = TRUE]
  /\ UNCHANGED <<req, completed, call>>

Step(r) ==
  \/ \E method \in Methods : Arrive(r, method)
  \/ \E code \in CallerStatuses : CallStatus(r, code)
  \/ \E h \in CallerHeaders : CallHeader(r, h[1], h[2])
  \/ \E body \in Bodies, generateEtag \in BOOLEAN : CallSend(r, body, generateEtag)
  \/ \E method \in MethodNames, body \in Bodies : CallDescriptive(r, method, body)
  \/ \E url \in Urls, code \in RedirectStatuses : CallRedirect(r, url, code)
  \/ \E body \in {StreamBody, Str(Hi), Obj(<<>>)} : CallStream(r, body)
  \/ Completion(r)
  \/ Deferred(r)
  \/ \E chunk \in Chunks : StreamData(r, chunk)
  \/ \E error \in StreamErrors : StreamError(r, error)
  \/ StreamEnd(r)
  \/ SendCatch(r)

\* One request/response cycle.
Next == Step(1)

Spec == Init /\ [][Next]_vars

\* The request/response cycles that pipe a stream: the handler calls
\* Response.stream, or Response.send with a stream.
StreamStep(r) ==
  \/ \E method \in Methods : Arrive(r, method)
  \/ \E code \in CallerStatuses : CallStatus(r, code)
  \/ \E generateEtag \in BOOLEAN : CallSend(r, StreamBody, generateEtag)
  \/ \E body \in {StreamBody, Str(Hi), Obj(<<>>)} : CallStream(r, body)
  \/ Completion(r)
  \/ Deferred(r)
  \/ \E chunk \in Chunks : StreamData(r, chunk)
  \/ \E error \in StreamErrors : StreamError(r, error)
  \/ StreamEnd(r)
  \/ SendCatch(r)

StreamNext == StreamStep(1)

\* The event loop runs what the code has scheduled: setImmediate runs the
\* callback on-finished deferred, the microtask queue runs the .catch handler.
\* No fairness is stated for the events of the stream and of the client.
FairStreamSpec ==
  Init /\ [][StreamNext]_vars /\ WF_vars(Deferred(1)) /\ WF_vars(SendCatch(1))

\* The request handlers that call Response.prepare themselves and end the
\* response with what it returned.
PrepareStep(r) ==
  \/ \E method \in Methods : Arrive(r, method)
  \/ \E code \in CallerStatuses : CallStatus(r, code)
  \/ \E h \in CallerHeaders : CallHeader(r, h[1], h[2])
  \/ \E body \in PlainBodies : CallPrepare(r, body)
  \/ CallPrepareAgain(r)
  \/ CallEnd(r)

PrepareNext == PrepareStep(1)

PrepareSpec == Init /\ [][PrepareNext]_vars

\* The request handlers that set, guard, append to and remove a header.
HeaderStep(r) ==
  \/ \E method \in Methods : Arrive(r, method)
  \/ \E key \in HeaderCallKeys, value \in HeaderCallValues : CallSetHeader(r, key, value)
  \/ \E key \in HeaderCallKeys, value \in HeaderCallValues : CallSafeHeader(r, key, value)
  \/ \E key \in HeaderCallKeys, value \in HeaderCallValues : CallAppend(r, key, value)
  \/ \E key \in HeaderCallKeys : CallRemoveHeader(r, key)

HeaderNext == HeaderStep(1)

HeaderSpec == Init /\ [][HeaderNext]_vars

\* The events the bodies of requests 1..n have emitted.
RECURSIVE emitted(_)
emitted(n) ==
  IF n = 0 THEN 0
  ELSE strm[n].nData + strm[n].nError + strm[n].nEnd + emitted(n - 1)

\* Concurrent requests, each answered by Response.stream with a stream of its
\* own on its own response; the events of the invocations interleave.
ConcurrentStep(r) ==
  \/ Arrive(r, "GET")
  \/ CallStream(r, StreamBody)
  \/ Completion(r)
  \/ Deferred(r)
  \/ emitted(NumReq) < MaxEvents /\ \E chunk \in Chunks : StreamData(r, chunk)
  \/ emitted(NumReq) < MaxEvents /\ \E error \in StreamErrors : StreamError(r, error)
  \/ emitted(NumReq) < MaxEvents /\ StreamEnd(r)

ConcurrentNext == \E r \in Req : ConcurrentStep(r)

ConcurrentSpec == Init /\ [][ConcurrentNext]_vars

\* The body classifier applied to every input.
ClassifyStep(r) ==
  \/ \E method \in Methods : Arrive(r, method)
  \/ \E body \in ClassifierInputs : Classify(r, body)

ClassifyNext == ClassifyStep(1)

ClassifySpec == Init /\ [][ClassifyNext]_vars

(***************************************************************************)
(* Claims about Response.stream.                                           *)
(***************************************************************************)

C2_NeverLeftOpen ==
  \A r \in Req : (strm[r].piped /\ completed[r]) ~> (strm[r].destroys # <<>>)

C2_Witness ==
  \E r \in Req :
    /\ completed[r]
    /\ strm[r].nEnd = 0 /\ strm[r].nError = 0 /\ strm[r].nData > 0
    /\ strm[r].destroys = <<"finished">>

C4_ResolvesWhenResponseFinishes ==
  \A r \in Req :
    (<>(strm[r].piped /\ completed[r]) /\ [](strm[r].nError = 0))
      => <>(strm[r].promise = "resolved")

\* C9: Response.stream with a body that has no pipe function rejects at once
\* with 'Body is not a valid stream', registers no handler on the body or the
\* response, pipes nothing and leaves the response as it was.
C9_InvalidStreamRejected ==
  \A r \in Req :
    call[r].op = "stream" /\ ~hasPipe(call[r].body)
      => /\ strm[r].promise = "rejected"
         /\ strm[r].reason = NotAValidStream
         /\ ~strm[r].onError /\ ~strm[r].onEnd
         /\ ~strm[r].listening /\ ~strm[r].deferred
         /\ ~strm[r].piped /\ strm[r].log = <<>>
         /\ res[r] = call[r].pre

C9_Witness ==
  \E r \in Req :
    /\ call[r].op = "stream" /\ call[r].body = Str(Hi)
    /\ strm[r].promise = "rejected"
    /\ call[r].pre.statusCode = 404
    /\ completed[r]

\* The place of a registration in the log of an invocation, 0 when absent.
Place(log, what) ==
  IF \E i \in 1..Len(log) : log[i] = what
  THEN CHOOSE i \in 1..Len(log) : log[i] = what
  ELSE 0

\* C20: in Response.stream the 'error' handler, the 'end' handler and the
\* response-completion handler are all attached before the body is piped to
\* the response, so no event that occurs once piping has started is missed:
\* an invocation that pipes has attached each of the three before the pipe,
\* a completed response has had (or has scheduled) its cleanup, an 'end'
\* has settled the promise, and an 'error' has been handled: it has settled
\* the promise unless the response had completed before it, the one case in
\* which the handler ignores it.
C20_HandlersBeforePipe ==
  \A r \in Req :
    strm[r].piped
      => /\ \A what \in {"error", "end", "finished"} :
              0 < Place(strm[r].log, what)
                /\ Place(strm[r].log, what) < Place(strm[r].log, "pipe")
         /\ strm[r].onError /\ strm[r].onEnd
         /\ completed[r] => strm[r].deferred \/ strm[r].finished
         /\ strm[r].nEnd > 0 => strm[r].promise # "pending"
         /\ strm[r].nError > 0
              => /\ strm[r].finished
                 /\ strm[r].promise = "pending" => strm[r].destroys[1] = "finished"

C20_Witness ==
  \E r \in Req :
    /\ strm[r].piped /\ strm[r].log = <<"error", "end", "finished", "pipe">>
    /\ strm[r].nData = 0 /\ strm[r].nError = 1 /\ strm[r].nEnd = 0
    /\ strm[r].promise = "rejected" /\ strm[r].reason = NoSuchFile
    /\ strm[r].destroys = <<"error">>

\* The completion handler of the invocation has run.
CompletionHandled(s) == \E i \in 1..Len(s.destroys) : s.destroys[i] = "finished"

\* C22: once the completion handler of Response.stream has set `finished`, a
\* later 'error' of the stream is ignored: it neither releases the stream
\* again nor settles the promise; so a piping invocation is rejected only by
\* an 'error' that came before the completion handler ran (the error handler
\* made the first release), and `finished` always implies that the stream
\* has been released.
C22_LateErrorIgnored ==
  [][\A r \in Req :
       /\ CompletionHandled(strm[r]) /\ strm'[r].nError > strm[r].nError
            => /\ strm'[r].destroys = strm[r].destroys
               /\ strm'[r].promise = strm[r].promise
               /\ strm'[r].reason = strm[r].reason
       /\ strm'[r].piped /\ strm'[r].promise = "rejected"
            => strm'[r].destroys # <<>> /\ strm'[r].destroys[1] = "error"
       /\ strm'[r].finished => strm'[r].destroys # <<>>]_vars

C22_Witness ==
  \E r \in Req :
    /\ completed[r] /\ strm[r].finished
    /\ strm[r].destroys = <<"finished">>
    /\ strm[r].nError = MaxError /\ strm[r].lastError = ReadFailed
    /\ strm[r].promise = "pending"

(***************************************************************************)
(* Claims about Response.send.                                             *)
(***************************************************************************)
SentPlain(r) == call[r].op \notin {"none", "stream"} /\ ~hasPipe(call[r].body)

\* C5: Response.send with a body that is not a stream (null and absent bodies
\* included) never overrides the status the caller had set, directly or by a
\* descriptive method: the response ends with that status.
C5_StatusNeverOverridden ==
  \A r \in Req :
    SentPlain(r) /\ call[r].statusSet /\ res[r].ended
      => res[r].statusCode = call[r].pre.statusCode

\* C6, first part: on a HEAD request Response.send hands no content to the
\* response, whatever the body, a stream included.
C6_HeadNoContent ==
  \A r \in Req :
    req[r].method = "HEAD" /\ call[r].op \notin {"none", "stream"}
      => res[r].written = <<>>

\* C6, second part: on a HEAD request the Content-Type derived from a body that
\* is not a stream is still set (the status allowing content headers).
C6_HeadKeepsHeaders ==
  \A r \in Req :
    /\ req[r].method = "HEAD" /\ SentPlain(r)
    /\ call[r].body.k \notin {"null", "undef"}
    /\ call[r].pre.statusCode \notin {204, 304}
    => /\ truthy(getHeader(res[r], "content-type"))
       /\ ~truthy(getHeader(call[r].pre, "content-type"))
            => getHeader(res[r], "content-type")
                 = Str(returnContentAndType(call[r].body).type.s \o CharsetUtf8)

\* C6: for a HEAD request Response.send writes no content bytes to the
\* response for any body, streams included, and still sets the headers derived
\* from a body that is not a stream.
C6_HeadRequest == C6_HeadNoContent /\ C6_HeadKeepsHeaders

MissingFileAnswered(r) ==
  /\ strm[r].viaSend /\ strm[r].caught
  /\ strm[r].reason = NoSuchFile
  /\ strm[r].nData = 0
  /\ req[r].method = "GET"

\* C8 (as stated): sending the stream of a file that does not exist yields
\* status 404 and a body equal to the error code string ENOENT.
C8_MissingFileBodyIsCode ==
  \A r \in Req :
    MissingFileAnswered(r)
      => res[r].statusCode = 404 /\ res[r].written = <<Str(strm[r].reason.code)>>

\* C8 (amended): sending the stream of a file that does not exist yields
\* status 404 and a body equal to the error's message.
C8_MissingFileBodyIsMessage ==
  \A r \in Req :
    MissingFileAnswered(r)
      => res[r].statusCode = 404 /\ res[r].written = <<Str(strm[r].reason.message)>>

C8_Witness == \E r \in Req : MissingFileAnswered(r) /\ res[r].ended

\* C10: Response.send with a null or absent body, the caller not having set
\* the status, ends the response with status 204, writes nothing, and leaves
\* Content-Type, Content-Length and Transfer-Encoding absent, also when the
\* caller had set them.
C10_NullBodyNoContent ==
  \A r \in Req :
    call[r].op = "send" /\ call[r].body.k \in {"null", "undef"} /\ ~call[r].statusSet
      => /\ res[r].ended
         /\ res[r].statusCode = 204
         /\ res[r].written = <<>>
         /\ \A h \in {"content-type", "content-length", "transfer-encoding"} :
              getHeader(res[r], h) = Undefined

C10_Witness ==
  \E r \in Req :
    /\ call[r].op = "send" /\ call[r].body = Undefined /\ ~call[r].statusSet
    /\ \A h \in {"content-type", "content-length", "transfer-encoding"} :
         truthy(getHeader(call[r].pre, h))
    /\ res[r].ended /\ res[r].statusCode = 204

(***************************************************************************)
(* Claims about Response.prepare.                                          *)
(***************************************************************************)
\* The request handler has called Response.prepare once, with a body that is
\* not null or absent, on a response whose status is not 204 or 304.
PreparedContent(r) ==
  /\ call[r].op = "prepare" /\ call[r].nPrepare = 1
  /\ call[r].body.k \notin {"null", "undef"}
  /\ call[r].pre.statusCode \notin {204, 304}

\* C11: header precedence in Response.prepare, for every body that is not null
\* and every status other than 204/304: a Content-Type present on the
\* response is left unchanged and otherwise it is set to
\* '<inferred type>; charset=utf-8'; a Content-Length present on the response
\* (a caller-set 0 included) is left unchanged and otherwise it is set to the
\* byte length of the returned content (empty content included).
C11_HeaderPrecedence ==
  \A r \in Req :
    PreparedContent(r)
      => /\ getHeader(res[r], "content-type")
              = IF getHeader(call[r].pre, "content-type") # Undefined
                THEN getHeader(call[r].pre, "content-type")
                ELSE Str(returnContentAndType(call[r].body).type.s \o CharsetUtf8)
         /\ getHeader(res[r], "content-length")
              = IF getHeader(call[r].pre, "content-length") # Undefined
                THEN getHeader(call[r].pre, "content-length")
                ELSE Num(byteLength(call[r].chunk))

\* C12: when the status is 204 or 304 as Response.send runs Response.prepare
\* with a body that is not null, Content-Type, Content-Length and
\* Transfer-Encoding are removed and none of them is set from the body: all
\* three are absent when the response ends, the status is kept, and the
\* serialized content is still returned (a GET request ends with it).
C12_NoContentHeadersRemoved ==
  \A r \in Req :
    /\ SentPlain(r)
    /\ call[r].body.k \notin {"null", "undef"}
    /\ call[r].pre.statusCode \in {204, 304}
    => /\ res[r].ended
       /\ res[r].statusCode = call[r].pre.statusCode
       /\ \A h \in {"content-type", "content-length", "transfer-encoding"} :
            getHeader(res[r], h) = Undefined
       /\ req[r].method = "GET"
            => res[r].written = <<returnContentAndType(call[r].body).body>>

C12_Witness ==
  \E r \in Req :
    /\ call[r].op = "send" /\ call[r].body = Obj(<<<<<<"a">>, 1>>>>)
    /\ call[r].pre.statusCode = 304
    /\ \A h \in {"content-type", "content-length", "transfer-encoding"} :
         truthy(getHeader(call[r].pre, h))
    /\ req[r].method = "GET"
    /\ res[r].ended /\ res[r].written = <<Str(<<"{", "\"", "a", "\"", ":", "1", "}">>)>>

\* C18: the no-content path of Response.prepare is idempotent: on a response
\* whose status is 204, or with a null body, a second (and any further) call
\* of Response.prepare with the same body leaves the status and the headers
\* as the call before left them.
C18_NoContentIdempotent ==
  \A r \in Req :
    /\ call[r].op = "prepare" /\ call[r].nPrepare >= 2
    /\ call[r].body.k \in {"null", "undef"} \/ call[r].pre.statusCode = 204
    => /\ res[r].statusCode = call[r].pre.statusCode
       /\ res[r].headers = call[r].pre.headers

C18_Witness ==
  \E r \in Req :
    /\ call[r].op = "prepare" /\ call[r].nPrepare = MaxPrepare
    /\ call[r].body = Str(Hi) /\ call[r].chunk = Str(Hi)
    /\ call[r].statusSet /\ call[r].pre.statusCode = 204
    /\ res[r].statusCode = 204
    /\ \A h \in {"content-type", "content-length", "transfer-encoding"} :
         getHeader(res[r], h) = Undefined

(***************************************************************************)
(* Claims about the header methods.                                        *)
(***************************************************************************)
\* The value res.setHeader stores for a value handed to Response.header.
Stored(value) == IF value.k = "list" THEN List(mapString(value.l)) ELSE value

\* C13: Response.safeHeader never overwrites an existing header: whatever
\* value is stored for the key (0 and the empty string included), the stored
\* value after safeHeader(res, key, v) is the value before; an absent header
\* is set to v.
C13_SafeHeaderNeverOverwrites ==
  \A r \in Req :
    call[r].hdr.op = "safeHeader"
      => getHeader(res[r], call[r].hdr.key)
           = IF call[r].hdr.pre # Undefined THEN call[r].hdr.pre
             ELSE Stored(call[r].hdr.value)

\* The field values of a header or of an appended value, as strings, in order.
FieldValues(v) ==
  CASE v.k = "undef" -> <<>>
    [] v.k = "list" -> [i \in 1..Len(v.l) |-> String(v.l[i])]
    [] OTHER -> <<String(v)>>

RECURSIVE AllFieldValues(_)
AllFieldValues(vs) ==
  IF vs = <<>> THEN <<>> ELSE FieldValues(vs[1]) \o AllFieldValues(Tail(vs))

\* C16: after any sequence of Response.append calls for a key (each with a
\* string, a number or an array, starting from an absent, a string or an array
\* header) the header's values are the previous value(s) followed by every
\* appended value in call order, none lost or reordered; Response.header
\* replaces the stored value entirely.
C16_AppendPreservesOrder ==
  \A r \in Req :
    LET h == call[r].hdr
    IN /\ h.op = "append" /\ h.start.k \in {"undef", "str", "list"}
            => FieldValues(getHeader(res[r], h.key))
                 = FieldValues(h.start) \o AllFieldValues(h.appended)
       /\ h.op = "header" => getHeader(res[r], h.key) = Stored(h.value)

(***************************************************************************)
(* Claims about concurrent Response.stream invocations.                    *)
(***************************************************************************)
\* This step is a step of request q: its handler moves, its response
\* completes, its deferred callback runs or its body emits an event.
OwnStep(q) ==
  \/ call'[q] # call[q]
  \/ completed'[q] # completed[q]
  \/ strm[q].deferred /\ ~strm'[q].deferred
  \/ strm'[q].nData # strm[q].nData
  \/ strm'[q].nError # strm[q].nError
  \/ strm'[q].nEnd # strm[q].nEnd

\* C14: concurrent Response.stream invocations on their own responses are
\* independent: in every interleaving, a step of one invocation (an error, an
\* end, a response completion) leaves every other invocation as it was, its
\* `finished` guard, its stream (destroy calls) and its promise included, and
\* every invocation whose stream ends without an error is resolved.
C14_ConcurrentStreamsIndependent ==
  [][\A q \in Req :
       /\ ~OwnStep(q) => strm'[q] = strm[q] /\ res'[q] = res[q]
       /\ strm'[q].nEnd > 0 /\ strm'[q].nError = 0
            => strm'[q].promise = "resolved"]_vars

C14_Witness ==
  \E a, b \in Req :
    /\ a # b
    /\ strm[a].promise = "rejected" /\ strm[a].destroys = <<"error">>
    /\ strm[b].promise = "resolved" /\ strm[b].nError = 0
    /\ ~strm[b].finished /\ strm[b].destroys = <<>>

(***************************************************************************)
(* Claims about the body classifier.                                       *)
(***************************************************************************)
\* The string begins with '<' after optional leading whitespace.
BeginsWithTag(s) ==
  \E i \in 1..Len(s) :
    s[i] = "<" /\ \A j \in 1..(i - 1) : s[j] \in {" ", "\t", "\n"}

DigitValue(c) == CHOOSE d \in 0..9 : <<"0", "1", "2", "3", "4", "5", "6", "7", "8", "9">>[d + 1] = c

\* The number a decimal numeral denotes.
RECURSIVE Denotes(_)
Denotes(s) ==
  IF Len(s) = 1 THEN DigitValue(s[1])
  ELSE 10 * Denotes(SubSeq(s, 1, Len(s) - 1)) + DigitValue(s[Len(s)])

\* The JSON texts of the values serialized here.
JSONText(v) ==
  CASE v = Obj(<<>>) -> <<"{", "}">>
    [] v = Obj(<<<<<<"a">>, 1>>>>) -> <<"{", "\"", "a", "\"", ":", "1", "}">>
    [] v = Obj(<<<<<<"a">>, 1>>, <<<<"b">>, 20>>>>)
         -> <<"{", "\"", "a", "\"", ":", "1", ",", "\"", "b", "\"", ":", "2", "0", "}">>
    [] v = List(<<>>) -> <<"[", "]">>
    [] v = List(<<Str(Bar), Num(1)>>) -> <<"[", "\"", "b", "a", "r", "\"", ",", "1", "]">>
    [] v = Null -> <<"n", "u", "l", "l">>

\* The classifier's result for a string, a buffer, a number or a boolean.
ClassifiedPrimitive(b, c) ==
  /\ b.k = "str"
       => c.body = b /\ c.type = Str(IF BeginsWithTag(b.s) THEN TextHtml ELSE TextPlain)
  /\ b.k = "buf" => c.body = b /\ c.type = Str(OctetStream)
  /\ b.k = "num"
       => c.body.k = "str" /\ Denotes(c.body.s) = b.n /\ c.type = Str(TextPlain)
  /\ b.k = "bool"
       => /\ c.body = Str(IF b.t THEN <<"t", "r", "u", "e">> ELSE <<"f", "a", "l", "s", "e">>)
          /\ c.type = Str(TextPlain)

\* C15 (as stated): the classifier maps a string to itself with text/html if
\* it begins with '<' after optional whitespace and text/plain otherwise, a
\* buffer to itself with application/octet-stream, a number or boolean to its
\* string form with text/plain, a plain object to its JSON serialization with
\* application/json, and a value of any other kind to itself with no type.
C15_ClassifierOtherKindsUnchanged ==
  \A r \in Req :
    call[r].op = "classify"
      => LET b == call[r].body
             c == call[r].ct
         IN /\ ClassifiedPrimitive(b, c)
            /\ b.k = "obj" => c.body = Str(JSONText(b)) /\ c.type = Str(ApplicationJson)
            /\ b.k \notin {"str", "buf", "num", "bool", "obj"}
                 => c.body = b /\ c.type = Undefined

\* C15 (amended): as stated for strings, buffers, numbers and booleans; every
\* other value whose typeof is 'object' (a plain object, and also an array and
\* null) is mapped to its JSON serialization with application/json; only a
\* value that is not an object (undefined, a function) is returned unchanged
\* with no type.
C15_ClassifierObjectsSerialized ==
  \A r \in Req :
    call[r].op = "classify"
      => LET b == call[r].body
             c == call[r].ct
         IN /\ ClassifiedPrimitive(b, c)
            /\ b.k \in {"obj", "list", "null"}
                 => c.body = Str(JSONText(b)) /\ c.type = Str(ApplicationJson)
            /\ b.k \in {"undef", "fn"} => c.body = b /\ c.type = Undefined

C15_Witness ==
  \E r \in Req :
    /\ call[r].op = "classify"
    /\ call[r].body = Str(<<" ", "\n", "<">>)
    /\ call[r].ct.type = Str(TextHtml)

(***************************************************************************)
(* Claims about Response.redirect and the descriptive methods.             *)
(***************************************************************************)
\* What Response.redirect does apart from Content-Length: Location is the
\* url, the status is the given one or 302, the response has ended and no
\* content was handed to it.
Redirected(r) ==
  /\ getHeader(res[r], "location") = call[r].url
  /\ res[r].statusCode = (IF call[r].code = Undefined THEN 302 ELSE call[r].code.n)
  /\ res[r].ended
  /\ \A i \in 1..Len(res[r].written) : res[r].written[i] = Str(<<>>)

C19_DescriptiveMethods ==
  \A r \in Req :
    call[r].op \in MethodNames /\ ~hasPipe(call[r].body)
      => /\ res[r].ended
         /\ res[r].statusCode = methods[call[r].op]
         /\ req[r].method = "GET"
              => res[r].written
                   = IF call[r].body.k \in {"null", "undef"} THEN <<>>
                     ELSE <<returnContentAndType(call[r].body).body>>

(***************************************************************************)
(* Claims about the stream-error fallback of Response.send.                *)
(***************************************************************************)
\* C21: the .catch handler of Response.send changes the response (status 404
\* or 500, Content-Type, Content-Length, ETag, end with the error's message)
\* only when no chunk of the stream has been written to the response: after
\* a stream that fails having delivered data, the status and the headers are
\* those the response had when Response.send was called.
C21_FallbackOnlyBeforeData ==
  \A r \in Req :
    strm[r].viaSend /\ strm[r].caught /\ strm[r].nData > 0
      => /\ res[r].statusCode = call[r].pre.statusCode
         /\ res[r].headers = call[r].pre.headers

====
